---- MODULE Spec2Model ----
(***************************************************************************)
(* Blogicum (blog/views.py, blog/utils.py, blog/forms.py, blog/admin.py):  *)
(* the store of posts, categories and comments, the request handlers of    *)
(* views.py acting on it, and the response each request produces.          *)
(***************************************************************************)
EXTENDS Integers, Sequences, FiniteSets, TLC

(* ------------------------------ bounds -------------------------------- *)
\* Posts ever created in the specification of the read side (ids are never reused).
MaxPosts == 2
\* Posts ever created in the specification of the write guards.
MaxGuardPosts == 1
\* Comments ever created.
MaxComments == 1
\* The clock runs over 0..MaxTime; pub_date is drawn from the same range.
MaxTime == 1
\* The largest store of the pagination specification.
MaxBulk == 21

(* --------------------------- program constants ------------------------ *)
\* paginate_by = 10 / paginate_queryset(..., 10)
PerPage == 10

(* ------------------------------ universe ------------------------------ *)
Users == {"u1", "u2"}
\* request.user of a request without a session (AnonymousUser)
Anonymous == "anon"
Viewers == Users \cup {Anonymous}
\* A username that names no user.
NoSuchUser == "ghost"
Categories == {"c1"}
\* A slug that names no category.
NoSuchSlug == "nocat"
\* Post.category is NULL
NoCategory == "null"
Texts == {"t1", "t2"}
\* ?page=<n>, or no page parameter at all
NoPageArg == [given |-> FALSE, n |-> 0]
PageArgs == {NoPageArg} \cup {[given |-> TRUE, n |-> k] : k \in -1..4}

\* A request to a post form: a GET, a POST the form rejects, or a POST it accepts.
PostForms(Cs, Ds) ==
    {[method |-> m, valid |-> FALSE, category |-> NoCategory, pub_date |-> 0,
      is_published |-> FALSE] : m \in {"GET", "POST"}}
    \cup {[method |-> "POST", valid |-> TRUE, category |-> c, pub_date |-> d,
           is_published |-> b] : c \in Cs, d \in Ds, b \in BOOLEAN}
\* The same for a comment form.
CommentForms ==
    {[method |-> m, valid |-> FALSE, text |-> "t1"] : m \in {"GET", "POST"}}
    \cup {[method |-> "POST", valid |-> TRUE, text |-> t] : t \in Texts}

VARIABLES
    posts,        \* id -> [author, is_published, category, pub_date]
    nextPostId,   \* the id the store gives the next Post
    comments,     \* id -> [author, post, text]
    nextCommentId,
    catPublished, \* Category.is_published, per category
    now,          \* timezone.now()
    resp          \* the last request and the response it got

vars == <<posts, nextPostId, comments, nextCommentId, catPublished, now, resp>>
store == <<posts, nextPostId, comments, nextCommentId, catPublished>>

(* ------------------------------ helpers ------------------------------- *)
Put(f, k, v) == [x \in DOMAIN f \cup {k} |-> IF x = k THEN v ELSE f[x]]
Remove(f, K) == [x \in DOMAIN f \ K |-> f[x]]
Range(s) == {s[i] : i \in DOMAIN s}
Min(a, b) == IF a < b THEN a ELSE b

\* request.user.is_authenticated
IsAuthenticated(user) == user \in Users

\* A response; every field is present in every response.
Response(op, actor, post, comment, name, page, status, items, number, num_pages, to) ==
    [op |-> op, actor |-> actor, post |-> post, comment |-> comment,
     name |-> name, page |-> page, status |-> status, items |-> items,
     number |-> number, num_pages |-> num_pages, to |-> to]
\* A response that is no listing.
Plain(op, actor, post, comment, status, to) ==
    Response(op, actor, post, comment, "", NoPageArg, status, <<>>, 0, 0, to)
\* A listing that was not found.
ListingNotFound(op, actor, name, page) ==
    Response(op, actor, 0, 0, name, page, "notfound", <<>>, 0, 0, 0)
NoResponse == Plain("none", Anonymous, 0, 0, "none", 0)

(* ----------------------------- pagination ----------------------------- *)
\* Paginator.num_pages with allow_empty_first_page (the default) and no orphans
NumPages(count) == IF count = 0 THEN 1 ELSE (count + PerPage - 1) \div PerPage

\* Paginator.page(number).object_list, number valid
PageItems(seq, number) ==
    SubSeq(seq, (number - 1) * PerPage + 1, Min(number * PerPage, Len(seq)))

\* A get_page that sends a page number below 1 to page 1.
GetPageNumberNearest(page, count) ==
    IF ~page.given THEN 1
    ELSE IF page.n < 1 THEN 1
    ELSE IF page.n > NumPages(count) THEN NumPages(count)
    ELSE page.n

\* Paginator.get_page: no or non-integer page -> 1 (PageNotAnInteger);
\* a number below 1 or above num_pages -> num_pages (EmptyPage).
GetPageNumber(page, count) ==
    IF ~page.given THEN 1
    ELSE IF page.n < 1 \/ page.n > NumPages(count) THEN NumPages(count)
    ELSE page.n

\* utils.paginate_queryset: the page of a listing, never an error
paginate_queryset(op, actor, name, page, seq) ==
    LET number == GetPageNumber(page, Len(seq))
    IN Response(op, actor, 0, 0, name, page, "ok",
                PageItems(seq, number), number, NumPages(Len(seq)), 0)

\* ListView with paginate_by: MultipleObjectMixin.paginate_queryset reads the
\* page (1 when absent) and turns Paginator.page's InvalidPage into Http404.
ListViewPaginate(op, actor, name, page, seq) ==
    LET number == IF page.given THEN page.n ELSE 1
    IN IF number < 1 \/ number > NumPages(Len(seq))
       THEN ListingNotFound(op, actor, name, page)
       ELSE Response(op, actor, 0, 0, name, page, "ok",
                     PageItems(seq, number), number, NumPages(Len(seq)), 0)

(* ------------------------------ ordering ------------------------------ *)
\* The posts of S no post of S is newer than.
Newest(S) == {p \in S : \A q \in S : posts[q].pub_date <= posts[p].pub_date}

\* order_by('-pub_date'): every sequence of the posts of S with pub_date
\* descending; the store is free in the order of posts with equal pub_date.
RECURSIVE OrderByPubDateDesc(_)
OrderByPubDateDesc(S) ==
    IF S = {} THEN {<<>>}
    ELSE UNION {{<<p>> \o t : t \in OrderByPubDateDesc(S \ {p})} : p \in Newest(S)}

(* ------------------------------ querysets ----------------------------- *)
\* filter(is_published=True, category__is_published=True, pub_date__lte=now):
\* the condition on category joins Category, so a NULL category matches nothing.
IndexQueryset ==
    {p \in DOMAIN posts :
        /\ posts[p].is_published
        /\ posts[p].category \in Categories
        /\ catPublished[posts[p].category]
        /\ posts[p].pub_date <= now}

\* ProfileDetailView.get_context_data: is_owner, and the posts either way
IsOwner(viewer, profile) == IsAuthenticated(viewer) /\ viewer = profile

ProfileQueryset(viewer, profile) ==
    IF IsOwner(viewer, profile)
    THEN {p \in DOMAIN posts : posts[p].author = profile}
    ELSE {p \in DOMAIN posts :
            /\ posts[p].author = profile
            /\ posts[p].is_published
            /\ posts[p].category \in Categories
            /\ catPublished[posts[p].category]
            /\ posts[p].pub_date <= now}

\* A category lookup that forgets the is_published filter.
ServableCategoriesAll == Categories

\* Category.objects.filter(is_published=True), looked up by slug
ServableCategories == {c \in Categories : catPublished[c]}

\* category.posts_by_category.filter(is_published=True, pub_date__lte=now)
CategoryPostList(category) ==
    {p \in DOMAIN posts :
        /\ posts[p].category = category
        /\ posts[p].is_published
        /\ posts[p].pub_date <= now}

\* A deletable set that forgets the author filter.
PostDeleteQuerysetAll(user) == DOMAIN posts

\* PostDeleteView.get_queryset / CommentDeleteView.get_queryset
PostDeleteQueryset(user) == {p \in DOMAIN posts : posts[p].author = user}
CommentDeleteQueryset(user) == {c \in DOMAIN comments : comments[c].author = user}

\* Post.category is optional: the form's empty choice.
EmptyChoice == {NoCategory}

\* PostCreateForm.__init__: the category field offers the published categories
CategoryChoices == {c \in Categories : catPublished[c]} \cup EmptyChoice

\* form.is_valid(): a category the field does not offer is rejected
FormValid(form) == form.valid /\ form.category \in CategoryChoices

\* The comments a deleted post takes with it.
CascadeComments(post_id) == {c \in DOMAIN comments : comments[c].post = post_id}

(* ------------------------------ read views ---------------------------- *)
\* post_detail: the outcome for viewer and post id
PostDetailStatus(viewer, post_id) ==
    IF post_id \notin DOMAIN posts THEN "notfound"
    ELSE LET post == posts[post_id]
             is_author == IsAuthenticated(viewer) /\ post.author = viewer
         IN \* post.category.is_published with category None: AttributeError
            IF post.is_published /\ post.category = NoCategory THEN "server_error"
            ELSE LET is_visible == /\ post.is_published
                                   /\ catPublished[post.category]
                                   /\ post.pub_date <= now
                 IN IF ~(is_author \/ is_visible) THEN "notfound" ELSE "ok"

post_detail(viewer, post_id) ==
    /\ resp' = Plain("post_detail", viewer, post_id, 0,
                     PostDetailStatus(viewer, post_id), 0)
    /\ UNCHANGED <<store, now>>

IndexListView(viewer, page) ==
    /\ \E seq \in OrderByPubDateDesc(IndexQueryset) :
          resp' = ListViewPaginate("index", viewer, "", page, seq)
    /\ UNCHANGED <<store, now>>

category_posts(viewer, category_slug, page) ==
    /\ IF category_slug \notin ServableCategories
       THEN resp' = ListingNotFound("category", viewer, category_slug, page)
       ELSE \E seq \in OrderByPubDateDesc(CategoryPostList(category_slug)) :
               resp' = paginate_queryset("category", viewer, category_slug, page, seq)
    /\ UNCHANGED <<store, now>>

ProfileDetailView(viewer, username, page) ==
    /\ IF username \notin Users
       THEN resp' = ListingNotFound("profile", viewer, username, page)
       ELSE \E seq \in OrderByPubDateDesc(ProfileQueryset(viewer, username)) :
               resp' = paginate_queryset("profile", viewer, username, page, seq)
    /\ UNCHANGED <<store, now>>

(* ------------------------------ post writes --------------------------- *)
\* LoginRequiredMixin, then CreateView; form_valid sets the author.
PostCreateView(user, form) ==
    IF ~IsAuthenticated(user)
    THEN /\ resp' = Plain("post_create", user, 0, 0, "redirect_login", 0)
         /\ UNCHANGED <<store, now>>
    ELSE IF form.method = "GET" \/ ~FormValid(form)
    THEN /\ resp' = Plain("post_create", user, 0, 0, "ok", 0)
         /\ UNCHANGED <<store, now>>
    ELSE /\ posts' = Put(posts, nextPostId,
                         [author |-> user, is_published |-> form.is_published,
                          category |-> form.category, pub_date |-> form.pub_date])
         /\ nextPostId' = nextPostId + 1
         /\ resp' = Plain("post_create", user, nextPostId, 0, "redirect_profile", 0)
         /\ UNCHANGED <<comments, nextCommentId, catPublished, now>>

\* An author check that denies only the anonymous non-author.
PostUpdateDeniedAnd(post, user) == post.author # user /\ ~IsAuthenticated(user)

\* PostUpdateView.dispatch: who is sent to the detail view instead
PostUpdateDenied(post, user) == post.author # user \/ ~IsAuthenticated(user)

\* dispatch: get_object, the author check, then LoginRequiredMixin and UpdateView
PostUpdateView(user, post_id, form) ==
    IF post_id \notin DOMAIN posts
    THEN /\ resp' = Plain("post_update", user, post_id, 0, "notfound", 0)
         /\ UNCHANGED <<store, now>>
    ELSE IF PostUpdateDenied(posts[post_id], user)
    THEN /\ resp' = Plain("post_update", user, post_id, 0, "redirect_detail", post_id)
         /\ UNCHANGED <<store, now>>
    ELSE IF ~IsAuthenticated(user)
    THEN /\ resp' = Plain("post_update", user, post_id, 0, "redirect_login", 0)
         /\ UNCHANGED <<store, now>>
    ELSE IF form.method = "GET" \/ ~FormValid(form)
    THEN /\ resp' = Plain("post_update", user, post_id, 0, "ok", 0)
         /\ UNCHANGED <<store, now>>
    ELSE /\ posts' = [posts EXCEPT ![post_id] =
                         [author |-> @.author, is_published |-> form.is_published,
                          category |-> form.category, pub_date |-> form.pub_date]]
         /\ resp' = Plain("post_update", user, post_id, 0, "redirect_detail", post_id)
         /\ UNCHANGED <<nextPostId, comments, nextCommentId, catPublished, now>>

\* LoginRequiredMixin, then DeleteView over get_queryset
PostDeleteView(user, post_id, method) ==
    IF ~IsAuthenticated(user)
    THEN /\ resp' = Plain("post_delete", user, post_id, 0, "redirect_login", 0)
         /\ UNCHANGED <<store, now>>
    ELSE IF post_id \notin PostDeleteQueryset(user)
    THEN /\ resp' = Plain("post_delete", user, post_id, 0, "notfound", 0)
         /\ UNCHANGED <<store, now>>
    ELSE IF method = "GET"
    THEN /\ resp' = Plain("post_delete", user, post_id, 0, "ok", 0)
         /\ UNCHANGED <<store, now>>
    ELSE /\ posts' = Remove(posts, {post_id})
         /\ comments' = Remove(comments, CascadeComments(post_id))
         /\ resp' = Plain("post_delete", user, post_id, 0, "redirect_index", 0)
         /\ UNCHANGED <<nextPostId, nextCommentId, catPublished, now>>

(* ----------------------------- comment writes ------------------------- *)
\* CommentCreateView.dispatch looks the post up (any post of the store), then
\* LoginRequiredMixin, then CreateView; form_valid sets author and post.
CommentCreateView(user, post_id, form) ==
    IF post_id \notin DOMAIN posts
    THEN /\ resp' = Plain("comment_create", user, post_id, 0, "notfound", 0)
         /\ UNCHANGED <<store, now>>
    ELSE IF ~IsAuthenticated(user)
    THEN /\ resp' = Plain("comment_create", user, post_id, 0, "redirect_login", 0)
         /\ UNCHANGED <<store, now>>
    ELSE IF form.method = "GET" \/ ~form.valid
    THEN /\ resp' = Plain("comment_create", user, post_id, 0, "ok", 0)
         /\ UNCHANGED <<store, now>>
    ELSE /\ comments' = Put(comments, nextCommentId,
                            [author |-> user, post |-> post_id, text |-> form.text])
         /\ nextCommentId' = nextCommentId + 1
         /\ resp' = Plain("comment_create", user, post_id, nextCommentId,
                          "redirect_detail", post_id)
         /\ UNCHANGED <<posts, nextPostId, catPublished, now>>

\* CommentUpdateView.dispatch: who is sent to the detail view instead
CommentUpdateDenied(comment, user) == comment.author # user \/ ~IsAuthenticated(user)

\* dispatch: get_object, the author check, then LoginRequiredMixin and UpdateView
CommentUpdateView(user, comment_id, form) ==
    IF comment_id \notin DOMAIN comments
    THEN /\ resp' = Plain("comment_update", user, 0, comment_id, "notfound", 0)
         /\ UNCHANGED <<store, now>>
    ELSE IF CommentUpdateDenied(comments[comment_id], user)
    THEN /\ resp' = Plain("comment_update", user, 0, comment_id,
                          "redirect_detail", comments[comment_id].post)
         /\ UNCHANGED <<store, now>>
    ELSE IF ~IsAuthenticated(user)
    THEN /\ resp' = Plain("comment_update", user, 0, comment_id, "redirect_login", 0)
         /\ UNCHANGED <<store, now>>
    ELSE IF form.method = "GET" \/ ~form.valid
    THEN /\ resp' = Plain("comment_update", user, 0, comment_id, "ok", 0)
         /\ UNCHANGED <<store, now>>
    ELSE /\ comments' = [comments EXCEPT ![comment_id].text = form.text]
         /\ resp' = Plain("comment_update", user, 0, comment_id,
                          "redirect_detail", comments[comment_id].post)
         /\ UNCHANGED <<posts, nextPostId, nextCommentId, catPublished, now>>

\* LoginRequiredMixin, then DeleteView over get_queryset
CommentDeleteView(user, comment_id, method) ==
    IF ~IsAuthenticated(user)
    THEN /\ resp' = Plain("comment_delete", user, 0, comment_id, "redirect_login", 0)
         /\ UNCHANGED <<store, now>>
    ELSE IF comment_id \notin CommentDeleteQueryset(user)
    THEN /\ resp' = Plain("comment_delete", user, 0, comment_id, "notfound", 0)
         /\ UNCHANGED <<store, now>>
    ELSE IF method = "GET"
    THEN /\ resp' = Plain("comment_delete", user, 0, comment_id, "ok", 0)
         /\ UNCHANGED <<store, now>>
    ELSE /\ comments' = Remove(comments, {comment_id})
         /\ resp' = Plain("comment_delete", user, 0, comment_id,
                          "redirect_detail", comments[comment_id].post)
         /\ UNCHANGED <<posts, nextPostId, nextCommentId, catPublished, now>>

(* ------------------------------ environment --------------------------- *)
\* CategoryAdmin.list_editable: the back office sets a category's is_published.
CategoryAdmin(category, is_published) ==
    /\ catPublished[category] # is_published
    /\ catPublished' = [catPublished EXCEPT ![category] = is_published]
    /\ resp' = NoResponse
    /\ UNCHANGED <<posts, nextPostId, comments, nextCommentId, now>>

\* timezone.now() moves on.
Tick ==
    /\ now < MaxTime
    /\ now' = now + 1
    /\ resp' = NoResponse
    /\ UNCHANGED store

(* ----------------------------- specifications ------------------------- *)
\* An empty store, every category published.
Init ==
    /\ posts = <<>>
    /\ nextPostId = 1
    /\ comments = <<>>
    /\ nextCommentId = 1
    /\ catPublished = [c \in Categories |-> TRUE]
    /\ now = 0
    /\ resp = NoResponse

\* The read side: posts are written, categories published and unpublished, the
\* clock moves, and every viewer reads the detail view and the three listings.
Next ==
    \/ \E v \in Viewers, id \in 1..(MaxPosts + 1) : post_detail(v, id)
    \/ \E v \in Viewers : IndexListView(v, NoPageArg)
    \/ \E v \in Viewers, slug \in Categories \cup {NoSuchSlug} :
          category_posts(v, slug, NoPageArg)
    \/ \E v \in Viewers, name \in Users \cup {NoSuchUser} :
          ProfileDetailView(v, name, NoPageArg)
    \/ \E v \in Viewers, f \in PostForms(Categories \cup {NoCategory}, 0..MaxTime) :
          nextPostId <= MaxPosts /\ PostCreateView(v, f)
    \/ \E v \in Viewers, id \in 1..(MaxPosts + 1),
          f \in PostForms(Categories \cup {NoCategory}, 0..MaxTime) :
          PostUpdateView(v, id, f)
    \/ \E v \in Viewers, id \in 1..(MaxPosts + 1), m \in {"GET", "POST"} :
          PostDeleteView(v, id, m)
    \/ \E c \in Categories, b \in BOOLEAN : CategoryAdmin(c, b)
    \/ Tick

Spec == Init /\ [][Next]_vars

\* The write guards: posts and comments are created, updated and deleted by
\* every actor, and the detail view is read.
NextGuard ==
    \/ \E v \in Viewers, id \in 1..(MaxGuardPosts + 1) : post_detail(v, id)
    \/ \E v \in Viewers, f \in PostForms(Categories, {0}) :
          nextPostId <= MaxGuardPosts /\ PostCreateView(v, f)
    \/ \E v \in Viewers, id \in 1..(MaxGuardPosts + 1), f \in PostForms(Categories, {0}) :
          PostUpdateView(v, id, f)
    \/ \E v \in Viewers, id \in 1..(MaxGuardPosts + 1), m \in {"GET", "POST"} :
          PostDeleteView(v, id, m)
    \/ \E v \in Viewers, id \in 1..(MaxGuardPosts + 1), f \in CommentForms :
          nextCommentId <= MaxComments /\ CommentCreateView(v, id, f)
    \/ \E v \in Viewers, id \in 1..(MaxComments + 1), f \in CommentForms :
          CommentUpdateView(v, id, f)
    \/ \E v \in Viewers, id \in 1..(MaxComments + 1), m \in {"GET", "POST"} :
          CommentDeleteView(v, id, m)

SpecGuard == Init /\ [][NextGuard]_vars

\* The category feed: one author writes posts, categories are published and
\* unpublished, the clock moves, and every viewer reads the category feed.
NextCategory ==
    \/ \E f \in PostForms(Categories \cup {NoCategory}, 0..MaxTime) :
          nextPostId <= MaxPosts /\ PostCreateView("u1", f)
    \/ \E id \in 1..(MaxPosts + 1), f \in PostForms(Categories \cup {NoCategory}, 0..MaxTime) :
          PostUpdateView("u1", id, f)
    \/ \E c \in Categories, b \in BOOLEAN : CategoryAdmin(c, b)
    \/ Tick
    \/ \E v \in Viewers, slug \in Categories \cup {NoSuchSlug} :
          category_posts(v, slug, NoPageArg)

SpecCategory == Init /\ [][NextCategory]_vars

\* Pagination: a store of n posts of one author in one published category,
\* all public, with pub_date 1..n, read through the three listings.
InitPaging ==
    /\ \E n \in 0..MaxBulk :
          /\ posts = [i \in 1..n |-> [author |-> "u1", is_published |-> TRUE,
                                      category |-> "c1", pub_date |-> i]]
          /\ nextPostId = n + 1
          /\ now = n
    /\ comments = <<>>
    /\ nextCommentId = 1
    /\ catPublished = [c \in Categories |-> TRUE]
    /\ resp = NoResponse

NextPaging ==
    \/ \E v \in Viewers, pg \in PageArgs : IndexListView(v, pg)
    \/ \E v \in Viewers, pg \in PageArgs : category_posts(v, "c1", pg)
    \/ \E v \in Viewers, pg \in PageArgs : ProfileDetailView(v, "u1", pg)

SpecPaging == InitPaging /\ [][NextPaging]_vars

(* ======================= the specification's words ==================== *)
\* "publicly visible": is_published, category null-or-published, pub_date <= now
PubliclyVisible(p) ==
    /\ posts[p].is_published
    /\ (posts[p].category = NoCategory \/ catPublished[posts[p].category])
    /\ posts[p].pub_date <= now

\* is_visible(P, V, T): V is the authenticated author, or P is publicly visible
VisibleTo(v, p) == (IsAuthenticated(v) /\ v = posts[p].author) \/ PubliclyVisible(p)

\* the actor is the authenticated author of the record
IsAuthorOf(actor, record) == IsAuthenticated(actor) /\ actor = record.author

\* pub_date descending along a page
SortedByPubDateDesc(items) ==
    \A i, j \in DOMAIN items : i < j => posts[items[i]].pub_date >= posts[items[j]].pub_date

IsListing(r) == r.op \in {"index", "category", "profile"}

\* a listing request whose scope exists: any home feed, the feed of a
\* servable category, the profile of a user
IsServedListing(r) ==
    /\ IsListing(r)
    /\ r.op = "category" => r.name \in ServableCategories
    /\ r.op = "profile" => r.name \in Users

\* the number of posts in the scope of the listing request
FeedSize(r) ==
    IF r.op = "index" THEN Cardinality(IndexQueryset)
    ELSE IF r.op = "category" THEN Cardinality(CategoryPostList(r.name))
    ELSE Cardinality(ProfileQueryset(r.actor, r.name))

\* the outcome of each post-addressed endpoint for a post id that does not exist
MissingPostStatus(op, actor) ==
    IF op = "post_delete" /\ ~IsAuthenticated(actor) THEN "redirect_login" ELSE "notfound"

(* ================================ claims ============================== *)

\* C1: the post detail request for an existing post answers "ok" exactly when
\* the viewer is the authenticated author or the post is published, its
\* category is null or published and pub_date <= now; otherwise "notfound";
\* no other outcome occurs.
C1_DetailFollowsPolicy ==
    (resp.op = "post_detail" /\ resp.post \in DOMAIN posts)
        => resp.status = (IF VisibleTo(resp.actor, resp.post) THEN "ok" ELSE "notfound")

\* C2: the home feed holds exactly the publicly visible posts (is_published,
\* category null or published, pub_date <= now), a post without category
\* included.
C2_HomeFeedIsPublicSet ==
    (resp.op = "index" /\ resp.status = "ok" /\ resp.num_pages = 1)
        => Range(resp.items) = {p \in DOMAIN posts : PubliclyVisible(p)}

C4_UpdateOnlyByAuthor ==
    [][/\ \A p \in DOMAIN posts \cap DOMAIN posts' :
             posts'[p] # posts[p]
                 => /\ resp'.op = "post_update" /\ resp'.post = p
                    /\ IsAuthorOf(resp'.actor, posts[p])
       /\ \A c \in DOMAIN comments \cap DOMAIN comments' :
             comments'[c] # comments[c]
                 => /\ resp'.op = "comment_update" /\ resp'.comment = c
                    /\ IsAuthorOf(resp'.actor, comments[c])
       /\ (/\ resp'.op = "post_update"
           /\ resp'.post \in DOMAIN posts
           /\ ~IsAuthorOf(resp'.actor, posts[resp'.post]))
             => /\ resp'.status = "redirect_detail"
                /\ resp'.to = resp'.post
                /\ UNCHANGED store
       /\ (/\ resp'.op = "comment_update"
           /\ resp'.comment \in DOMAIN comments
           /\ ~IsAuthorOf(resp'.actor, comments[resp'.comment]))
             => /\ resp'.status = "redirect_detail"
                /\ resp'.to = comments[resp'.comment].post
                /\ UNCHANGED store
      ]_vars

\* C4 witness: an authenticated non-owner asked to update a post and was
\* redirected to its detail view.
C4_NonOwnerRedirected ==
    /\ resp.op = "post_update"
    /\ resp.post \in DOMAIN posts
    /\ IsAuthenticated(resp.actor)
    /\ resp.actor # posts[resp.post].author
    /\ resp.status = "redirect_detail"
    /\ resp.to = resp.post

\* C5 as stated: a Post or Comment leaves the store only by a delete request
\* of its authenticated author; a delete request from anyone else, anonymous
\* included, is answered "notfound" and leaves the store as it was.
C5_DeleteDeniedNotFound ==
    [][/\ \A p \in DOMAIN posts \ DOMAIN posts' :
             /\ resp'.op = "post_delete" /\ resp'.post = p
             /\ IsAuthorOf(resp'.actor, posts[p])
       /\ \A c \in DOMAIN comments \ DOMAIN comments' :
             /\ resp'.op = "comment_delete" /\ resp'.comment = c
             /\ IsAuthorOf(resp'.actor, comments[c])
       /\ (/\ resp'.op = "post_delete"
           /\ resp'.post \in DOMAIN posts
           /\ ~IsAuthorOf(resp'.actor, posts[resp'.post]))
             => (resp'.status = "notfound" /\ UNCHANGED store)
       /\ (/\ resp'.op = "comment_delete"
           /\ resp'.comment \in DOMAIN comments
           /\ ~IsAuthorOf(resp'.actor, comments[resp'.comment]))
             => (resp'.status = "notfound" /\ UNCHANGED store)
      ]_vars

\* C5 amended: a Post leaves the store only by a delete request of its
\* authenticated author, a Comment only by a delete request of its
\* authenticated author or together with its post; a delete request from an
\* authenticated non-owner is answered "notfound", one from an anonymous actor
\* by a redirect to the login page, and both leave the store as it was.
C5_DeleteOnlyByAuthor ==
    [][/\ \A p \in DOMAIN posts \ DOMAIN posts' :
             /\ resp'.op = "post_delete" /\ resp'.post = p
             /\ IsAuthorOf(resp'.actor, posts[p])
       /\ \A c \in DOMAIN comments \ DOMAIN comments' :
             \/ /\ resp'.op = "comment_delete" /\ resp'.comment = c
                /\ IsAuthorOf(resp'.actor, comments[c])
             \/ /\ resp'.op = "post_delete" /\ resp'.post = comments[c].post
                /\ comments[c].post \in DOMAIN posts \ DOMAIN posts'
       /\ (/\ resp'.op = "post_delete"
           /\ resp'.post \in DOMAIN posts
           /\ ~IsAuthorOf(resp'.actor, posts[resp'.post]))
             => /\ resp'.status = (IF IsAuthenticated(resp'.actor)
                                   THEN "notfound" ELSE "redirect_login")
                /\ UNCHANGED store
       /\ (/\ resp'.op = "comment_delete"
           /\ resp'.comment \in DOMAIN comments
           /\ ~IsAuthorOf(resp'.actor, comments[resp'.comment]))
             => /\ resp'.status = (IF IsAuthenticated(resp'.actor)
                                   THEN "notfound" ELSE "redirect_login")
                /\ UNCHANGED store
      ]_vars

\* C5 witness: an authenticated non-owner asked to delete a post that is
\* still in the store and was answered "notfound".
C5_NonOwnerDeleteNotFound ==
    /\ resp.op = "post_delete"
    /\ resp.post \in DOMAIN posts
    /\ IsAuthenticated(resp.actor)
    /\ resp.actor # posts[resp.post].author
    /\ resp.status = "notfound"

\* C6: a comment-creation request by an authenticated user on a post that
\* user cannot view (not its author, post not publicly visible) is answered
\* "notfound" and adds no Comment.
C6_CommentOnlyOnViewable ==
    (/\ resp.op = "comment_create"
     /\ resp.post \in DOMAIN posts
     /\ IsAuthenticated(resp.actor)
     /\ ~VisibleTo(resp.actor, resp.post))
        => (resp.status = "notfound" /\ resp.comment = 0)

\* C7: for a post that exists but fails the visibility policy for the viewer,
\* post detail, post update, post delete and comment creation answer as they
\* answer for a post id that does not exist.
C7_HiddenAsMissing ==
    (/\ resp.op \in {"post_detail", "post_update", "post_delete", "comment_create"}
     /\ resp.post \in DOMAIN posts
     /\ ~VisibleTo(resp.actor, resp.post))
        => resp.status = MissingPostStatus(resp.op, resp.actor)

\* C8: the profile feed of U holds, for the authenticated viewer U, all posts
\* of U, and for anyone else the publicly visible posts of U (category null
\* or published), in both cases by pub_date descending.
C8_ProfileFeed ==
    (resp.op = "profile" /\ resp.status = "ok" /\ resp.num_pages = 1)
        => /\ Range(resp.items) =
                 (IF IsAuthenticated(resp.actor) /\ resp.actor = resp.name
                  THEN {p \in DOMAIN posts : posts[p].author = resp.name}
                  ELSE {p \in DOMAIN posts :
                          posts[p].author = resp.name /\ PubliclyVisible(p)})
           /\ SortedByPubDateDesc(resp.items)

\* C9: the category feed of an unpublished category is "notfound" for every
\* viewer whatever its posts; the feed of a published category holds the
\* posts of that category with is_published and pub_date <= now, and no others.
C9_CategoryFeed ==
    (resp.op = "category" /\ resp.name \in Categories)
        => IF catPublished[resp.name]
           THEN /\ resp.status = "ok"
                /\ Range(resp.items) \subseteq
                      {p \in DOMAIN posts : /\ posts[p].category = resp.name
                                            /\ posts[p].is_published
                                            /\ posts[p].pub_date <= now}
                /\ Len(resp.items) = Cardinality(Range(resp.items))
                /\ resp.num_pages = 1
                      => Len(resp.items) =
                            Cardinality({p \in DOMAIN posts :
                                            /\ posts[p].category = resp.name
                                            /\ posts[p].is_published
                                            /\ posts[p].pub_date <= now})
           ELSE resp.status = "notfound" /\ resp.items = <<>>

\* C9 witness: the author of a published, past-dated post asked for the feed
\* of that post's category, which is unpublished, and was answered "notfound".
C9_UnpublishedCategoryNotFound ==
    /\ resp.op = "category"
    /\ resp.name \in Categories
    /\ ~catPublished[resp.name]
    /\ resp.status = "notfound"
    /\ \E p \in DOMAIN posts :
          /\ posts[p].category = resp.name
          /\ posts[p].is_published
          /\ posts[p].pub_date <= now
          /\ posts[p].author = resp.actor

\* C10: the same listing request asked twice with no write and no clock step
\* in between gives the same page of posts in the same order.
C10_ListingDeterministic ==
    [][(/\ IsListing(resp) /\ IsListing(resp')
        /\ resp'.op = resp.op /\ resp'.actor = resp.actor
        /\ resp'.name = resp.name /\ resp'.page = resp.page
        /\ UNCHANGED <<store, now>>)
          => resp'.items = resp.items
      ]_vars

====
